---- MODULE Spec2Model ----
(***************************************************************************)
(* A model of getDataCVM.py: the batched per-year retriever                *)
(* (DataCVM.download_data), the form-type facade (DataCVM.get_data) and    *)
(* the catalog discoverer (DataCVM.find_dataset).                          *)
(*                                                                         *)
(* Text is modelled at the granularity the code works at: archive members  *)
(* are sequences of lines of bytes, decoded text is a sequence of          *)
(* one-character strings, filename templates are sequences of literal      *)
(* parts and replacement fields.                                           *)
(***************************************************************************)
EXTENDS Integers, Sequences, FiniteSets, TLC

VARIABLES
    pc,          \* "idle" | "loop" | "returned" | "raised"
    self,        \* the instance the call is made on (its attributes)
    call,        \* the arguments of the running call
    years,       \* download_data: the years `range(start, end)` iterates
    idx,         \* download_data: how many years the loop has consumed
    data_list,   \* download_data: the accumulator of per-year tables
    fetchLog,    \* every requests.get performed, in order: [url, year]
    served,      \* what the portal answered to each fetch, in order
    statusLog,   \* every line printed, in order: [kind, year]
    result,      \* the value returned to the caller
    error,       \* the exception raised to the caller
    ditems,      \* find_dataset: the <li> items of the fetched listing page
    dtype,       \* find_dataset: the data_type argument
    dpos,        \* find_dataset: how many <li> items the loop has consumed
    dataset      \* find_dataset: the dict under construction

vars == <<pc, self, call, years, idx, data_list, fetchLog, served, statusLog,
          result, error, ditems, dtype, dpos, dataset>>

retrieveVars == <<self, call, years, idx, data_list, fetchLog, served,
                  statusLog, result>>
catalogVars == <<ditems, dtype, dpos, dataset>>

-----------------------------------------------------------------------------
(* Bounds of the model.                                                    *)

\* how many consecutive years a request may span
NumYears == 3
\* how many <li> items a listing page holds at most
MaxItems == 2

\* the first year VLMO and ICBGC publish (the documented minimum year)
FirstYear == 2020

Years == FirstYear .. (FirstYear + NumYears)

-----------------------------------------------------------------------------
(* Generic sequence helpers.                                               *)

RECURSIVE Flatten(_)
Flatten(ss) == IF ss = <<>> THEN <<>> ELSE Head(ss) \o Flatten(Tail(ss))

Max(S) == CHOOSE x \in S : \A y \in S : y <= x

\* the first position of value v in sequence s, 0 when absent
IndexOf(s, v) ==
    IF \E i \in DOMAIN s : s[i] = v
    THEN CHOOSE i \in DOMAIN s : s[i] = v /\ \A j \in 1..(i - 1) : s[j] # v
    ELSE 0

NoDuplicates(s) == \A i, j \in DOMAIN s : s[i] = s[j] => i = j

-----------------------------------------------------------------------------
(* Filename templates and str.format(year=...).                            *)

Lit(t) == [kind |-> "lit", text |-> t]
Field(n) == [kind |-> "field", text |-> n]

\* str.format(year=year) raises KeyError for a replacement field whose name
\* is not among the keyword arguments
FormatRaises(template) ==
    \E i \in DOMAIN template :
        template[i].kind = "field" /\ template[i].text # "year"

\* the formatted text, one string per template part
FormatText(template, year) ==
    [i \in DOMAIN template |->
        IF template[i].kind = "field" THEN ToString(year) ELSE template[i].text]

-----------------------------------------------------------------------------
(* The instances (form types) and their static configuration.              *)

VLMO ==
    [name |-> "VLMO", hasDatasets |-> TRUE,
     base_url |-> "https://dados.cvm.gov.br/dados/CIA_ABERTA/DOC/VLMO/DADOS/",
     zip_template |-> <<Lit("vlmo_cia_aberta_"), Field("year"), Lit(".zip")>>,
     datasets |->
        << <<"original",
             <<Lit("vlmo_cia_aberta_"), Field("year"), Lit(".csv")>> >>,
           <<"consolidado",
             <<Lit("vlmo_cia_aberta_con_"), Field("year"), Lit(".csv")>> >> >>]

ICBGC ==
    [name |-> "ICBGC", hasDatasets |-> TRUE,
     base_url |-> "https://dados.cvm.gov.br/dados/CIA_ABERTA/DOC/CGVN/DADOS/",
     zip_template |-> <<Lit("cgvn_cia_aberta_"), Field("year"), Lit(".zip")>>,
     datasets |->
        << <<"original",
             <<Lit("cgvn_cia_aberta_"), Field("year"), Lit(".csv")>> >>,
           <<"praticas",
             <<Lit("cgvn_cia_aberta_praticas_"), Field("year"), Lit(".csv")>> >> >>]

\* a bare DataCVM(): no subclass has set base_url, zip_template or datasets
BareDataCVM ==
    [name |-> "DataCVM", hasDatasets |-> FALSE, base_url |-> "",
     zip_template |-> <<>>, datasets |-> <<>>]

Instances == {VLMO, ICBGC, BareDataCVM}

\* list(d.values()) in place of list(d.keys())
DictValues(d) == [i \in DOMAIN d |-> d[i][2]]

\* a dict is a sequence of <<key, value>> pairs in insertion order
DictKeys(d) == [i \in DOMAIN d |-> d[i][1]]
DictHas(d, k) == \E i \in DOMAIN d : d[i][1] = k
DictGet(d, k) == d[CHOOSE i \in DOMAIN d : d[i][1] = k][2]
\* d[k] = v: an existing key keeps its position, a new key is appended
DictSet(d, k, v) ==
    IF DictHas(d, k)
    THEN [i \in DOMAIN d |-> IF d[i][1] = k THEN <<k, v>> ELSE d[i]]
    ELSE Append(d, <<k, v>>)

-----------------------------------------------------------------------------
(* Archive members: raw bytes, as file.readlines() returns them.           *)

\* [] : an empty member
CsvEmpty == <<>>
\* ['a;b\n'] : a header line and no data
CsvHeaderOnly == <<<<97, 59, 98, 10>>>>
\* [' a;b\r\n', '1;2\n', 'é\n'] : two data rows, the second one short
CsvTwoRows == <<<<32, 97, 59, 98, 13, 10>>, <<49, 59, 50, 10>>, <<233, 10>>>>
\* ['b;c\n', '2;1\n'] : another header
CsvDrift == <<<<98, 59, 99, 10>>, <<50, 59, 49, 10>>>>
\* ['a;a\n', '1;1\n'] : a header that repeats a column name
CsvDupHeader == <<<<97, 59, 97, 10>>, <<49, 59, 49, 10>>>>
\* ['a;b\n', '1;2;1\n'] : a data row wider than the header
CsvRagged == <<<<97, 59, 98, 10>>, <<49, 59, 50, 59, 49, 10>>>>

CsvFiles == {CsvEmpty, CsvHeaderOnly, CsvTwoRows, CsvDrift, CsvDupHeader,
             CsvRagged}

\* bytes.strip() removes ASCII whitespace (\t \n \v \f \r and space) at
\* both ends
IsSpace(b) == b \in {9, 10, 11, 12, 13, 32}

RECURSIVE LStrip(_)
LStrip(bs) ==
    IF bs # <<>> /\ IsSpace(Head(bs)) THEN LStrip(Tail(bs)) ELSE bs

RECURSIVE RStrip(_)
RStrip(bs) ==
    IF bs # <<>> /\ IsSpace(bs[Len(bs)])
    THEN RStrip(SubSeq(bs, 1, Len(bs) - 1))
    ELSE bs

Strip(bs) == RStrip(LStrip(bs))

\* ISO-8859-1 maps every byte to the character with the same code point
\* (the bytes the modelled members use)
Latin1(b) ==
    CASE b = 32 -> " "
      [] b = 49 -> "1"
      [] b = 50 -> "2"
      [] b = 59 -> ";"
      [] b = 97 -> "a"
      [] b = 98 -> "b"
      [] b = 99 -> "c"
      [] b = 233 -> "e_acute"

Decode(bs) == [i \in DOMAIN bs |-> Latin1(bs[i])]

\* str.split(sep): the pieces between occurrences of sep ("" gives [""])
RECURSIVE Split(_, _)
Split(s, sep) ==
    LET i == IndexOf(s, sep)
    IN  IF i = 0
        THEN <<s>>
        ELSE <<SubSeq(s, 1, i - 1)>> \o Split(SubSeq(s, i + 1, Len(s)), sep)

\* lines 53-54: strip and decode every line, then split it on ";"
ParseLines(lines) ==
    [i \in DOMAIN lines |-> Split(Decode(Strip(lines[i])), ";")]

-----------------------------------------------------------------------------
(* Tables: pd.DataFrame and pd.concat.                                     *)

\* the cell of a row shorter than the widest row
None == <<"None">>
\* the cell concat fills in for a column a table does not have
NaN == <<"NaN">>

\* pd.DataFrame(): no rows and no columns
EmptyDataFrame == [columns |-> <<>>, rows |-> <<>>]

Width(data) == Max({Len(data[i]) : i \in DOMAIN data})

\* pd.DataFrame(data=rows, columns=header) raises ValueError when the
\* widest row and the header differ in length
DataFrameRaises(data, columns) ==
    data # <<>> /\ Width(data) # Len(columns)

\* rows narrower than the widest one are padded with None
DataFrame(data, columns) ==
    [columns |-> columns,
     rows |-> [i \in DOMAIN data |->
                 [j \in DOMAIN columns |->
                     IF j <= Len(data[i]) THEN data[i][j] ELSE None]]]

SameColumns(frames) ==
    \A i, j \in DOMAIN frames : frames[i].columns = frames[j].columns

\* the union of the frames' column names, in order of first appearance
RECURSIVE AppendNew(_, _)
AppendNew(cols, more) ==
    IF more = <<>> THEN cols
    ELSE AppendNew(IF IndexOf(cols, Head(more)) = 0
                   THEN Append(cols, Head(more)) ELSE cols,
                   Tail(more))

RECURSIVE UnionColumns(_)
UnionColumns(frames) ==
    IF frames = <<>> THEN <<>>
    ELSE AppendNew(<<>>, Head(frames).columns
                          \o UnionColumns(Tail(frames)))

Reindex(row, from, to) ==
    [j \in DOMAIN to |->
        IF IndexOf(from, to[j]) = 0 THEN NaN ELSE row[IndexOf(from, to[j])]]

\* pd.concat cannot align tables whose headers differ when one of them
\* repeats a column name (InvalidIndexError)
ConcatRaises(frames) ==
    /\ ~SameColumns(frames)
    /\ \E i \in DOMAIN frames : ~NoDuplicates(frames[i].columns)

\* the frames concatenated last to first
ConcatReversed(frames) ==
    [columns |-> UnionColumns(frames),
     rows |-> Flatten([i \in DOMAIN frames |->
                [r \in DOMAIN frames[Len(frames) + 1 - i].rows |->
                   Reindex(frames[Len(frames) + 1 - i].rows[r],
                           frames[Len(frames) + 1 - i].columns,
                           UnionColumns(frames))]])]

\* pd.concat(frames, ignore_index=True): the rows of the frames one after
\* the other, aligned by column name when the headers differ
Concat(frames) ==
    IF SameColumns(frames)
    THEN [columns |-> frames[1].columns,
          rows |-> Flatten([i \in DOMAIN frames |-> frames[i].rows])]
    ELSE LET cols == UnionColumns(frames)
         IN  [columns |-> cols,
              rows |-> Flatten([i \in DOMAIN frames |->
                         [r \in DOMAIN frames[i].rows |->
                            Reindex(frames[i].rows[r], frames[i].columns,
                                    cols)]])]

-----------------------------------------------------------------------------
(* The portal: what a GET of an archive URL can answer.                    *)

Publishers == {VLMO, ICBGC}

\* requests.get raises (connection error or timeout): no response at all
Timeout == [kind |-> "timeout", status |-> 0, zip |-> FALSE,
            form |-> "", year |-> 0, csv |-> <<>>]
\* a response with an error status
NotFound == [kind |-> "http", status |-> 404, zip |-> FALSE,
             form |-> "", year |-> 0, csv |-> <<>>]
\* a 200 response whose body is not a ZIP archive
NotZip == [kind |-> "http", status |-> 200, zip |-> FALSE,
           form |-> "", year |-> 0, csv |-> <<>>]
\* a 200 response: the year's archive of a form type, every member of the
\* form type's catalog holding the lines csv
Archive(inst, year, csv) ==
    [kind |-> "http", status |-> 200, zip |-> TRUE,
     form |-> inst.name, year |-> year, csv |-> csv]

ArchiveUrl(inst, year) == <<inst.base_url>> \o FormatText(inst.zip_template, year)

\* the answers the portal can give to GET url
Portal(url) ==
    {Timeout, NotFound}
    \cup UNION {IF url = ArchiveUrl(inst, y)
                THEN {NotZip} \cup {Archive(inst, y, csv) : csv \in CsvFiles}
                ELSE {} : inst \in Publishers, y \in Years}

\* the member names of an archive
Members(resp) ==
    UNION {{FormatText(inst.datasets[i][2], resp.year) :
                i \in DOMAIN inst.datasets} :
           inst \in {p \in Publishers : p.name = resp.form}}

-----------------------------------------------------------------------------
(* download_data: the body of the try block for one year (lines 46-57).    *)

\* the exception the try block raises on this response, "none" when it
\* runs to its end
TryRaises(resp, csv_template, year) ==
    IF resp.kind = "timeout" THEN "Timeout"                  \* line 46
    ELSE IF resp.status >= 400 THEN "HTTPError"              \* line 47
    ELSE IF ~resp.zip THEN "BadZipFile"                      \* line 49
    ELSE IF FormatRaises(csv_template) THEN "KeyError"       \* line 50
    ELSE IF FormatText(csv_template, year) \notin Members(resp)
         THEN "KeyError"                                     \* line 51
    ELSE IF resp.csv = <<>> THEN "IndexError"                \* line 55, lines[0]
    ELSE IF DataFrameRaises(Tail(ParseLines(resp.csv)),
                            Head(ParseLines(resp.csv)))
         THEN "ValueError"                                   \* line 55
    ELSE "none"

\* pd.DataFrame(data=lines[1:]) with the columns argument forgotten
YearFrameNoColumns(resp) ==
    DataFrame(Tail(ParseLines(resp.csv)), <<>>)

\* the year's table: lines[0] is the header, lines[1:] are the data rows
YearFrame(resp) ==
    DataFrame(Tail(ParseLines(resp.csv)), Head(ParseLines(resp.csv)))

RequestExceptions == {"Timeout", "HTTPError"}

\* the except chain without its final `except Exception`
HandlerNoCatchAll(exc) ==
    IF exc \in RequestExceptions THEN "download_error"
    ELSE IF exc = "BadZipFile" THEN "unzip_error"
    ELSE "uncaught"

\* which except clause of lines 59-64 handles the exception
Handler(exc) ==
    IF exc \in RequestExceptions THEN "download_error"
    ELSE IF exc = "BadZipFile" THEN "unzip_error"
    ELSE "unexpected_error"

\* range(start, end + 1): the end year taken as inclusive
RangeInclusive(start, end) == [i \in 1..(end - start + 1) |-> start + i - 1]

\* range(end - 1, start - 1, -1): the years walked downwards
RangeDescending(start, end) == [i \in 1..(end - start) |-> end - i]

\* the years range(start, end) yields
Range(start, end) == [i \in 1..(end - start) |-> start + i - 1]

-----------------------------------------------------------------------------
(* The state before any call.                                              *)

NoCall == [entry |-> "", dataset |-> "", start |-> 0, end |-> 0,
           base_url |-> "", zip_template |-> <<>>, csv_template |-> <<>>]
NoError == [type |-> "", at |-> "", keys |-> <<>>]

Init ==
    /\ pc = "idle"
    /\ self = BareDataCVM
    /\ call = NoCall
    /\ years = <<>>
    /\ idx = 0
    /\ data_list = <<>>
    /\ fetchLog = <<>>
    /\ served = <<>>
    /\ statusLog = <<>>
    /\ result = EmptyDataFrame
    /\ error = NoError
    /\ ditems = <<>>
    /\ dtype = <<>>
    /\ dpos = 0
    /\ dataset = <<>>

-----------------------------------------------------------------------------
(* download_data (lines 34-66).                                            *)

\* entering download_data: data_list = [] and the loop over range(start, end)
EnterDownload(entry, inst, key, start, end, base_url, zip_template,
              csv_template) ==
    /\ pc' = "loop"
    /\ self' = inst
    /\ call' = [entry |-> entry, dataset |-> key, start |-> start,
                end |-> end, base_url |-> base_url,
                zip_template |-> zip_template, csv_template |-> csv_template]
    /\ years' = Range(start, end)
    /\ idx' = 0
    /\ data_list' = <<>>
    /\ UNCHANGED <<fetchLog, served, statusLog, result, error>>

\* templates a caller of download_data may pass besides the catalog's
BadZipTemplate == <<Lit("vlmo_cia_aberta_"), Field("ano"), Lit(".zip")>>
BadCsvTemplate == <<Lit("vlmo_cia_aberta_"), Field("ano"), Lit(".csv")>>
OtherCsvTemplate == <<Lit("vlmo_cia_aberta_ind_"), Field("year"), Lit(".csv")>>
OtherBaseUrl == "https://dados.cvm.gov.br/dados/CIA_ABERTA/DOC/XYZ/DADOS/"

\* a direct call of download_data
CallDownloadData ==
    /\ pc = "idle"
    /\ \E start, end \in Years :
       \E base_url \in {VLMO.base_url, OtherBaseUrl} :
       \E zip_template \in {VLMO.zip_template, BadZipTemplate} :
       \E csv_template \in {VLMO.datasets[1][2], BadCsvTemplate,
                            OtherCsvTemplate} :
          /\ EnterDownload("download_data", BareDataCVM, "", start, end,
                           base_url, zip_template, csv_template)
    /\ UNCHANGED catalogVars

CurYear == years[idx + 1]
ZipFilename == FormatText(call.zip_template, CurYear)
Url == <<call.base_url>> \o ZipFilename

\* line 42 raises: zip_template.format(year=year) is outside the try block
YearZipFormatError ==
    /\ pc = "loop"
    /\ idx < Len(years)
    /\ FormatRaises(call.zip_template)
    /\ pc' = "raised"
    /\ error' = [type |-> "KeyError", at |-> "zip_template.format",
                 keys |-> <<>>]
    /\ UNCHANGED <<self, call, years, idx, data_list, fetchLog, served,
                   statusLog, result>>
    /\ UNCHANGED catalogVars

\* one iteration whose try block raises: the except clause that handles
\* the exception prints one status line and the loop goes on; an exception
\* no clause handles leaves download_data
YearFails ==
    /\ pc = "loop"
    /\ idx < Len(years)
    /\ ~FormatRaises(call.zip_template)
    /\ \E resp \in Portal(Url) :
          LET exc == TryRaises(resp, call.csv_template, CurYear)
          IN  /\ exc # "none"
              /\ fetchLog' = Append(fetchLog, [url |-> Url, year |-> CurYear])
              /\ served' = Append(served, resp)
              /\ IF Handler(exc) = "uncaught"
                 THEN /\ pc' = "raised"
                      /\ error' = [type |-> exc, at |-> "try", keys |-> <<>>]
                      /\ UNCHANGED <<idx, statusLog>>
                 ELSE /\ statusLog' = Append(statusLog,
                                [kind |-> Handler(exc), year |-> CurYear])
                      /\ idx' = idx + 1
                      /\ UNCHANGED <<pc, error>>
    /\ UNCHANGED <<self, call, years, data_list, result>>
    /\ UNCHANGED catalogVars

\* one iteration whose try block runs to its end: the year's table is
\* appended and the success line printed
YearSucceeds ==
    /\ pc = "loop"
    /\ idx < Len(years)
    /\ ~FormatRaises(call.zip_template)
    /\ \E resp \in Portal(Url) :
          /\ TryRaises(resp, call.csv_template, CurYear) = "none"
          /\ fetchLog' = Append(fetchLog, [url |-> Url, year |-> CurYear])
          /\ served' = Append(served, resp)
          /\ data_list' = Append(data_list, YearFrame(resp))
          /\ statusLog' = Append(statusLog,
                            [kind |-> "finished", year |-> CurYear])
    /\ idx' = idx + 1
    /\ UNCHANGED <<pc, self, call, years, result, error>>
    /\ UNCHANGED catalogVars

\* line 66 with an empty data_list, or one pd.concat accepts
Return ==
    /\ pc = "loop"
    /\ idx = Len(years)
    /\ data_list # <<>> => ~ConcatRaises(data_list)
    /\ pc' = "returned"
    /\ result' = IF data_list # <<>> THEN Concat(data_list) ELSE EmptyDataFrame
    /\ UNCHANGED <<self, call, years, idx, data_list, fetchLog, served,
                   statusLog, error>>
    /\ UNCHANGED catalogVars

\* line 66 with a data_list pd.concat rejects
ReturnConcatError ==
    /\ pc = "loop"
    /\ idx = Len(years)
    /\ data_list # <<>>
    /\ ConcatRaises(data_list)
    /\ pc' = "raised"
    /\ error' = [type |-> "InvalidIndexError", at |-> "pd.concat",
                 keys |-> <<>>]
    /\ UNCHANGED <<self, call, years, idx, data_list, fetchLog, served,
                   statusLog, result>>
    /\ UNCHANGED catalogVars

-----------------------------------------------------------------------------
(* get_data (lines 68-94).                                                 *)

DatasetKeys == {"original", "consolidado", "praticas", "bpa_con"}

\* line 85-86: the instance has no datasets attribute
GetDataNoCatalog ==
    /\ pc = "idle"
    /\ \E inst \in Instances, key \in DatasetKeys, start, end \in Years :
          /\ ~inst.hasDatasets
          /\ self' = inst
          /\ call' = [NoCall EXCEPT !.entry = "get_data", !.dataset = key,
                                   !.start = start, !.end = end]
    /\ pc' = "raised"
    /\ error' = [type |-> "AttributeError", at |-> "get_data", keys |-> <<>>]
    /\ UNCHANGED <<years, idx, data_list, fetchLog, served, statusLog, result>>
    /\ UNCHANGED catalogVars

\* line 87: dataset not in self.datasets
UnknownKey(inst, key) == ~DictHas(inst.datasets, key)

\* lines 87-90: the key is not in the catalog
GetDataUnknownKey ==
    /\ pc = "idle"
    /\ \E inst \in Instances, key \in DatasetKeys, start, end \in Years :
          /\ inst.hasDatasets
          /\ UnknownKey(inst, key)
          /\ self' = inst
          /\ call' = [NoCall EXCEPT !.entry = "get_data", !.dataset = key,
                                   !.start = start, !.end = end]
          /\ error' = [type |-> "ValueError", at |-> "get_data",
                       keys |-> DictKeys(inst.datasets)]
    /\ pc' = "raised"
    /\ UNCHANGED <<years, idx, data_list, fetchLog, served, statusLog, result>>
    /\ UNCHANGED catalogVars

\* lines 91-94: the key resolves to its template and download_data runs
GetDataDelegates ==
    /\ pc = "idle"
    /\ \E inst \in Instances, key \in DatasetKeys, start, end \in Years :
          /\ inst.hasDatasets
          /\ ~UnknownKey(inst, key)
          /\ EnterDownload("get_data", inst, key, start, end, inst.base_url,
                           inst.zip_template, DictGet(inst.datasets, key))
    /\ UNCHANGED catalogVars

NextRetrieve ==
    \/ CallDownloadData
    \/ YearZipFormatError
    \/ YearFails
    \/ YearSucceeds
    \/ Return
    \/ ReturnConcatError
    \/ GetDataNoCatalog
    \/ GetDataUnknownKey
    \/ GetDataDelegates

-----------------------------------------------------------------------------
(* Text operations of find_dataset, on sequences of characters.            *)

\* s.startswith(p)
StartsWith(s, p) == Len(p) <= Len(s) /\ SubSeq(s, 1, Len(p)) = p

\* s.endswith(p)
EndsWith(s, p) ==
    Len(p) <= Len(s) /\ SubSeq(s, Len(s) - Len(p) + 1, Len(s)) = p

\* sub in s
Contains(s, sub) ==
    \E i \in 1..(Len(s) - Len(sub) + 1) : SubSeq(s, i, i + Len(sub) - 1) = sub

\* s.find(sub): the 0-based index of the first occurrence, -1 when absent
Find(s, sub) ==
    IF Contains(s, sub)
    THEN (CHOOSE i \in 1..(Len(s) - Len(sub) + 1) :
            /\ SubSeq(s, i, i + Len(sub) - 1) = sub
            /\ \A j \in 1..(i - 1) : SubSeq(s, j, j + Len(sub) - 1) # sub) - 1
    ELSE -1

\* s[:n]: a negative n counts from the end
SliceTo(s, n) ==
    IF n >= 0
    THEN SubSeq(s, 1, IF n < Len(s) THEN n ELSE Len(s))
    ELSE SubSeq(s, 1, IF Len(s) + n > 0 THEN Len(s) + n ELSE 0)

\* s.removeprefix(p) and s.removesuffix(p)
RemovePrefix(s, p) ==
    IF StartsWith(s, p) THEN SubSeq(s, Len(p) + 1, Len(s)) ELSE s
RemoveSuffix(s, p) ==
    IF EndsWith(s, p) THEN SubSeq(s, 1, Len(s) - Len(p)) ELSE s

\* s.replace(old, ""): every occurrence of old removed, left to right
RECURSIVE Remove(_, _)
Remove(s, old) ==
    IF s = <<>> THEN <<>>
    ELSE IF StartsWith(s, old)
         THEN Remove(SubSeq(s, Len(old) + 1, Len(s)), old)
         ELSE <<Head(s)>> \o Remove(Tail(s), old)

-----------------------------------------------------------------------------
(* The strings of find_dataset.                                            *)

\* "fca_cia_aberta"
FcaCiaAberta ==
    <<"f", "c", "a", "_", "c", "i", "a", "_", "a", "b", "e", "r", "t", "a">>

\* "fre_cia_aberta"
FreCiaAberta ==
    <<"f", "r", "e", "_", "c", "i", "a", "_", "a", "b", "e", "r", "t", "a">>

\* "itr_cia_aberta"
ItrCiaAberta ==
    <<"i", "t", "r", "_", "c", "i", "a", "_", "a", "b", "e", "r", "t", "a">>

\* "aberta"
Aberta == <<"a", "b", "e", "r", "t", "a">>
\* "(anteriormente"
Anteriormente ==
    <<"(", "a", "n", "t", "e", "r", "i", "o", "r", "m", "e", "n", "t", "e">>
\* "_{year}.csv"
YearCsv == <<"_", "{", "y", "e", "a", "r", "}", ".", "c", "s", "v">>
\* "original"
Original == <<"o", "r", "i", "g", "i", "n", "a", "l">>

DataTypes == {FcaCiaAberta, FreCiaAberta, ItrCiaAberta}

\* the flattened texts of the <li> items a listing page may hold
\* "fca_cia_aberta_geral(anteriormente fca_cia_aberta_old)"
TextGeral ==
    <<"f", "c", "a", "_", "c", "i", "a", "_", "a", "b", "e", "r", "t", "a",
    "_", "g", "e", "r", "a", "l", "(", "a", "n", "t", "e", "r", "i", "o",
    "r", "m", "e", "n", "t", "e", " ", "f", "c", "a", "_", "c", "i", "a",
    "_", "a", "b", "e", "r", "t", "a", "_", "o", "l", "d", ")">>

\* "fca_cia_auditor(x)"
TextAuditor ==
    <<"f", "c", "a", "_", "c", "i", "a", "_", "a", "u", "d", "i", "t", "o",
    "r", "(", "x", ")">>

\* "fca_cia_aberta_dri"
TextDri ==
    <<"f", "c", "a", "_", "c", "i", "a", "_", "a", "b", "e", "r", "t", "a",
    "_", "d", "r", "i">>

\* "fca_cia_aberta_original(x)"
TextOriginal ==
    <<"f", "c", "a", "_", "c", "i", "a", "_", "a", "b", "e", "r", "t", "a",
    "_", "o", "r", "i", "g", "i", "n", "a", "l", "(", "x", ")">>

\* "fca_cia_abertas(x)"
TextAbertas ==
    <<"f", "c", "a", "_", "c", "i", "a", "_", "a", "b", "e", "r", "t", "a",
    "s", "(", "x", ")">>

\* "fca_cia_aberta_fca_cia_abertas(x)"
TextNested ==
    <<"f", "c", "a", "_", "c", "i", "a", "_", "a", "b", "e", "r", "t", "a",
    "_", "f", "c", "a", "_", "c", "i", "a", "_", "a", "b", "e", "r", "t",
    "a", "s", "(", "x", ")">>

\* "fre_cia_aberta_auditor(anteriormente fre_x): y"
TextFreAuditor ==
    <<"f", "r", "e", "_", "c", "i", "a", "_", "a", "b", "e", "r", "t", "a",
    "_", "a", "u", "d", "i", "t", "o", "r", "(", "a", "n", "t", "e", "r",
    "i", "o", "r", "m", "e", "n", "t", "e", " ", "f", "r", "e", "_", "x",
    ")", ":", " ", "y">>

\* "fre_cia_capital: y"
TextFreCapital ==
    <<"f", "r", "e", "_", "c", "i", "a", "_", "c", "a", "p", "i", "t", "a",
    "l", ":", " ", "y">>

\* "Outros(x)"
TextOutros ==
    <<"O", "u", "t", "r", "o", "s", "(", "x", ")">>

\* "itr_cia_aberta_parecer: y"
TextItrParecer ==
    <<"i", "t", "r", "_", "c", "i", "a", "_", "a", "b", "e", "r", "t", "a",
    "_", "p", "a", "r", "e", "c", "e", "r", ":", " ", "y">>

Texts == {TextGeral, TextAuditor, TextDri, TextOriginal, TextAbertas,
          TextNested, TextFreAuditor, TextFreCapital, TextItrParecer,
          TextOutros}

\* an <li> item: whether it holds a <strong> element, and li.get_text()
LiItems == [strong : {TRUE}, text : Texts]
           \cup {[strong |-> FALSE, text |-> TextGeral]}

RECURSIVE SeqsUpTo(_, _)
SeqsUpTo(S, n) ==
    IF n = 0 THEN {<<>>}
    ELSE SeqsUpTo(S, n - 1)
         \cup {Append(q, x) : q \in {r \in SeqsUpTo(S, n - 1) : Len(r) = n - 1},
                              x \in S}

\* the listing pages: up to MaxItems <li> items
Pages == SeqsUpTo(LiItems, MaxItems)

-----------------------------------------------------------------------------
(* find_dataset (lines 10-32).                                             *)

\* lines 11-14: the delimiter of the data type's family; no branch assigns
\* one to a data type that holds neither "fca" nor "fre"
Unbound == <<"unbound">>
Delimiter(data_type) ==
    IF Contains(data_type, <<"f", "c", "a">>) THEN <<"(">>
    ELSE IF Contains(data_type, <<"f", "r", "e">>) THEN <<":">>
    ELSE Unbound

\* html.find_all("li") without the li.find("strong") filter
LiAll(items) == items

\* line 17: the <li> items that hold a <strong>
LiStrong(items) == SelectSeq(items, LAMBDA li : li.strong)

\* line 21
Qualifies(text, data_type) ==
    StartsWith(text, RemoveSuffix(data_type, Aberta))

\* lines 22-23: the text cut at the delimiter, "(anteriormente" removed
Truncated(text, delimiter) ==
    Remove(SliceTo(text, Find(text, delimiter)), Anteriormente)

\* lines 24-29: the key of the truncated text
ItemKey(text, data_type) ==
    IF Contains(text, data_type)
    THEN RemovePrefix(text, data_type \o <<"_">>)
    ELSE RemovePrefix(text, RemoveSuffix(data_type, Aberta))

\* the else branch without the data type in front of the key
ItemValueNoPrefix(text, data_type) ==
    IF Contains(text, data_type)
    THEN text \o YearCsv
    ELSE RemovePrefix(text, RemoveSuffix(data_type, Aberta)) \o YearCsv

\* lines 24-29: the filename template of the truncated text
ItemValue(text, data_type) ==
    IF Contains(text, data_type)
    THEN text \o YearCsv
    ELSE data_type \o <<"_">> \o ItemKey(text, data_type) \o YearCsv

\* line 31: the entry every catalog gets
OriginalEntry(data_type) == <<Original, data_type \o YearCsv>>

\* line 15 raises: the listing page cannot be fetched
FindDatasetFetchFails ==
    /\ pc = "idle"
    /\ \E data_type \in DataTypes : dtype' = data_type
    /\ pc' = "d_raised"
    /\ error' = [type |-> "ConnectionError", at |-> "find_dataset",
                 keys |-> <<>>]
    /\ UNCHANGED <<ditems, dpos, dataset>>
    /\ UNCHANGED retrieveVars

\* lines 11-18: the page is fetched and its <li><strong> items collected
FindDatasetStart ==
    /\ pc = "idle"
    /\ \E data_type \in DataTypes, page \in Pages :
          /\ dtype' = data_type
          /\ ditems' = page
    /\ dpos' = 0
    /\ dataset' = <<>>
    /\ pc' = "d_loop"
    /\ UNCHANGED error
    /\ UNCHANGED retrieveVars

li_strong == LiStrong(ditems)
CurText == li_strong[dpos + 1].text

\* line 21 is false: the item is skipped
ItemSkipped ==
    /\ pc = "d_loop"
    /\ dpos < Len(li_strong)
    /\ ~Qualifies(CurText, dtype)
    /\ dpos' = dpos + 1
    /\ UNCHANGED <<pc, error, ditems, dtype, dataset>>
    /\ UNCHANGED retrieveVars

\* lines 22-30: the item is entered in the catalog
ItemAdded ==
    /\ pc = "d_loop"
    /\ dpos < Len(li_strong)
    /\ Qualifies(CurText, dtype)
    /\ Delimiter(dtype) # Unbound
    /\ LET text == Truncated(CurText, Delimiter(dtype))
       IN  dataset' = DictSet(dataset, ItemKey(text, dtype),
                              ItemValue(text, dtype))
    /\ dpos' = dpos + 1
    /\ UNCHANGED <<pc, error, ditems, dtype>>
    /\ UNCHANGED retrieveVars

\* line 22 reads a delimiter no branch assigned: UnboundLocalError
ItemUnboundDelimiter ==
    /\ pc = "d_loop"
    /\ dpos < Len(li_strong)
    /\ Qualifies(CurText, dtype)
    /\ Delimiter(dtype) = Unbound
    /\ pc' = "d_raised"
    /\ error' = [type |-> "UnboundLocalError", at |-> "find_dataset",
                 keys |-> <<>>]
    /\ UNCHANGED <<ditems, dtype, dpos, dataset>>
    /\ UNCHANGED retrieveVars

\* lines 31-32: the "original" entry is set and the catalog returned
FindDatasetReturn ==
    /\ pc = "d_loop"
    /\ dpos = Len(li_strong)
    /\ dataset' = DictSet(dataset, OriginalEntry(dtype)[1],
                          OriginalEntry(dtype)[2])
    /\ pc' = "d_returned"
    /\ UNCHANGED <<error, ditems, dtype, dpos>>
    /\ UNCHANGED retrieveVars

NextCatalog ==
    \/ FindDatasetFetchFails
    \/ FindDatasetStart
    \/ ItemSkipped
    \/ ItemAdded
    \/ ItemUnboundDelimiter
    \/ FindDatasetReturn

Next == NextRetrieve \/ NextCatalog

Spec == Init /\ [][Next]_vars

-----------------------------------------------------------------------------
(* Properties of download_data and get_data.                               *)

\* how many years the requested range holds
RangeSize == IF call.end > call.start THEN call.end - call.start ELSE 0

\* download_data has been entered (directly or through get_data)
InRetrieve == call.entry # "" /\ error.at # "get_data"

Succeeded(y) == \E j \in DOMAIN statusLog :
                    statusLog[j] = [kind |-> "finished", year |-> y]
ServedFor(y) == served[CHOOSE i \in DOMAIN fetchLog : fetchLog[i].year = y]

\* the data rows the successful years hold, by ascending year, each with
\* the header of its year
ExpectedRows ==
    Flatten([i \in 1..(call.end - call.start) |->
        LET y == call.start + i - 1
        IN  IF Succeeded(y)
            THEN LET lines == ParseLines(ServedFor(y).csv)
                 IN  [r \in 1..(Len(lines) - 1) |->
                        [cols |-> lines[1], cells |-> lines[r + 1]]]
            ELSE <<>>])

\* a row of the result holds the cells of a data row under that row's own
\* column names (a cell the line did not have is None) and nothing else
SameRow(resRow, resCols, src) ==
    IF resCols = src.cols
    THEN \A p \in DOMAIN src.cols :
            resRow[p] = IF p <= Len(src.cells) THEN src.cells[p] ELSE None
    ELSE /\ \A p \in DOMAIN src.cols :
              /\ IndexOf(resCols, src.cols[p]) # 0
              /\ resRow[IndexOf(resCols, src.cols[p])] =
                    IF p <= Len(src.cells) THEN src.cells[p] ELSE None
         /\ \A q \in DOMAIN resCols :
              IndexOf(src.cols, resCols[q]) = 0 => resRow[q] = NaN

\* C1: the rows of the table retrieve returns are exactly the data rows of
\* the years that succeeded, by ascending year, each year's rows in their
\* original order; the row count is the sum of the successful years' row
\* counts and no row of a failed year appears.
C1_RowsOfSuccessfulYears ==
    (pc = "returned" /\ InRetrieve) =>
        /\ Len(result.rows) = Len(ExpectedRows)
        /\ \A k \in DOMAIN result.rows :
              /\ Len(result.rows[k]) = Len(result.columns)
              /\ SameRow(result.rows[k], result.columns, ExpectedRows[k])

\* a mixed run: success, failure, success, and rows from both successes
C1_Witness ==
    /\ pc = "returned"
    /\ Len(statusLog) = 3
    /\ statusLog[1].kind = "finished"
    /\ statusLog[2].kind # "finished"
    /\ statusLog[3].kind = "finished"
    /\ served[1].csv = CsvTwoRows
    /\ served[3].csv = CsvDrift
    /\ Len(result.rows) = 3

\* C2 as stated: no failure of a per-year step, the formatting of the ZIP
\* filename included, is raised to the caller of retrieve.
C2_NoPerYearFailureRaised ==
    InRetrieve => pc # "raised"

\* C2, amended: a failure of a per-year step from the fetch on (transport
\* failure, error status, non-ZIP body, CSV name formatting, missing member,
\* decoding, building the table) is never raised and does not abort the
\* loop: when the call ends every year of the range has been attempted.
\* Only the formatting of the ZIP filename (before any fetch) and the final
\* pd.concat can raise.
C2_FailuresFromFetchOnAreAbsorbed ==
    /\ (pc = "raised" /\ InRetrieve) =>
          \/ /\ error.at = "zip_template.format"
             /\ FormatRaises(call.zip_template)
             /\ fetchLog = <<>>
          \/ /\ error.at = "pd.concat"
             /\ Len(fetchLog) = RangeSize
    /\ (pc = "returned" /\ InRetrieve) =>
          /\ Len(fetchLog) = RangeSize
          /\ Len(statusLog) = RangeSize

\* a returned call whose first year failed unexpectedly (not a transport or
\* ZIP failure) and whose later years were attempted
C2_Witness ==
    /\ pc = "returned"
    /\ Len(statusLog) = 3
    /\ statusLog[1].kind = "unexpected_error"
    /\ statusLog[2].kind = "download_error"
    /\ statusLog[3].kind = "unzip_error"

\* C3: get_data with a key that is not in the instance's catalog fails with
\* an error that lists the catalog's keys, and performs no network call.
C3_UnknownKeyFailsWithoutFetch ==
    (/\ call.entry = "get_data"
     /\ self.hasDatasets
     /\ \A i \in DOMAIN self.datasets : self.datasets[i][1] # call.dataset)
    => /\ pc = "raised"
       /\ error.type = "ValueError"
       /\ error.keys = [i \in DOMAIN self.datasets |-> self.datasets[i][1]]
       /\ fetchLog = <<>>
       /\ statusLog = <<>>

\* get_data("praticas", ...) on VLMO over a non-empty range
C3_Witness ==
    /\ call.entry = "get_data"
    /\ self = VLMO
    /\ call.dataset = "praticas"
    /\ call.start < call.end
    /\ pc = "raised"

\* C4: the table retrieve returns has zero rows and zero columns if and
\* only if no year of the range succeeded.
C4_EmptyIffNoYearSucceeded ==
    (pc = "returned" /\ InRetrieve) =>
        ((result.rows = <<>> /\ result.columns = <<>>)
            <=> ~\E j \in DOMAIN statusLog : statusLog[j].kind = "finished")

\* the only successful year held a header line and no data
C4_Witness ==
    /\ pc = "returned"
    /\ Len(statusLog) = 2
    /\ statusLog[1].kind = "finished"
    /\ served[1].csv = CsvHeaderOnly
    /\ statusLog[2].kind # "finished"
    /\ result.rows = <<>>
    /\ result.columns # <<>>

\* C5: retrieve with start = end returns the empty table and performs no
\* network call.
C5_EmptyRangeNoFetch ==
    (InRetrieve /\ call.start = call.end) =>
        /\ fetchLog = <<>>
        /\ pc # "raised"
        /\ pc = "returned" => result = EmptyDataFrame

\* a returned call with start = end, whatever the ZIP template
C5_Witness ==
    /\ pc = "returned"
    /\ InRetrieve
    /\ call.start = call.end
    /\ call.zip_template = BadZipTemplate

-----------------------------------------------------------------------------
(* Properties of find_dataset.                                             *)

\* find_dataset has fetched the listing page
PageFetched ==
    pc \in {"d_loop", "d_returned"}
    \/ (pc = "d_raised" /\ error.type # "ConnectionError")

\* the delimiter character of the two recognised families
FamilyChar(F) ==
    IF Contains(F, <<"f", "c", "a">>) THEN "("
    ELSE IF Contains(F, <<"f", "r", "e">>) THEN ":"
    ELSE "none"

KnownFamily(F) == FamilyChar(F) # "none"

\* a qualifying list item: a strong marker and a text that starts with the
\* form type stripped of its qualifier
QualifyingItem(li, F) ==
    li.strong /\ StartsWith(li.text, RemoveSuffix(F, Aberta))

NoQualifyingItem ==
    \A i \in DOMAIN ditems : ~QualifyingItem(ditems[i], dtype)

\* T cut at the first occurrence of the delimiter (all of T when there is
\* none), "(anteriormente" removed
CutText(T, F) ==
    Remove(IF IndexOf(T, FamilyChar(F)) = 0
           THEN T
           ELSE SubSeq(T, 1, IndexOf(T, FamilyChar(F)) - 1),
           Anteriormente)

HasDelimiter(T, F) == IndexOf(T, FamilyChar(F)) # 0

\* the key and the template the classification rule gives the cut text
RuleKey(Tc, F) ==
    IF Contains(Tc, F)
    THEN RemovePrefix(Tc, F \o <<"_">>)
    ELSE RemovePrefix(Tc, RemoveSuffix(F, Aberta))
RuleTemplate(Tc, F) ==
    IF Contains(Tc, F)
    THEN Tc \o <<"_", "{", "y", "e", "a", "r", "}", ".", "c", "s", "v">>
    ELSE F \o <<"_">> \o RuleKey(Tc, F)
           \o <<"_", "{", "y", "e", "a", "r", "}", ".", "c", "s", "v">>

Maps(d, k, v) == \E i \in DOMAIN d : d[i] = <<k, v>>

\* the <li><strong> item the loop has just processed
JustProcessed == LiStrong(ditems)[dpos]

\* C7 as stated: discovery of a page without qualifying list items returns
\* a mapping with no keys at all.
C7_NoQualifyingItemsEmptyMapping ==
    (pc = "d_returned" /\ NoQualifyingItem) => dataset = <<>>

\* C7, amended: discovery of a page without qualifying list items does not
\* raise, and returns the mapping whose only key is "original", mapped to
\* "<form_type>_{year}.csv".
C7_NoQualifyingItemsOnlyOriginal ==
    (PageFetched /\ NoQualifyingItem) =>
        /\ pc # "d_raised"
        /\ pc = "d_returned" =>
              dataset = << <<Original,
                             dtype \o <<"_", "{", "y", "e", "a", "r", "}",
                                        ".", "c", "s", "v">> >> >>

\* a returned discovery of a page that holds list items, none qualifying:
\* one without a strong marker and one with another text
C7_Witness ==
    /\ pc = "d_returned"
    /\ dtype = FcaCiaAberta
    /\ NoQualifyingItem
    /\ Len(ditems) = 2
    /\ \E i \in DOMAIN ditems : ~ditems[i].strong
    /\ \E i \in DOMAIN ditems : ditems[i].text = TextFreCapital

\* C8: discovery for a form type of neither delimiter family fails and
\* produces no catalog, whatever the page holds.
C8_UnknownFamilyNoCatalog ==
    (pc \in {"d_loop", "d_returned", "d_raised"} /\ ~KnownFamily(dtype))
        => pc # "d_returned"

\* C9 as stated: for every qualifying text in which the delimiter occurs,
\* the catalog returned maps the rule's key to the rule's template.
C9_EveryItemInCatalog ==
    (pc = "d_returned" /\ KnownFamily(dtype)) =>
        \A i \in DOMAIN ditems :
            (QualifyingItem(ditems[i], dtype)
             /\ HasDelimiter(ditems[i].text, dtype))
            => Maps(dataset,
                    RuleKey(CutText(ditems[i].text, dtype), dtype),
                    RuleTemplate(CutText(ditems[i].text, dtype), dtype))

\* C9, amended: every qualifying text in which the delimiter occurs is
\* entered in the catalog under the rule's key with the rule's template;
\* in the catalog returned the entry stands unless a later qualifying item
\* gave the same key (the last one wins) or the key is "original", which
\* always maps to "<form_type>_{year}.csv". The text
\* "fca_cia_aberta_geral(anteriormente fca_cia_aberta_old)" of form type
\* "fca_cia_aberta" gives "geral" -> "fca_cia_aberta_geral_{year}.csv".
C9_ItemsEnteredLastWins ==
    /\ (pc = "d_loop" /\ dpos >= 1 /\ KnownFamily(dtype)
        /\ QualifyingItem(JustProcessed, dtype)
        /\ HasDelimiter(JustProcessed.text, dtype))
       => Maps(dataset,
               RuleKey(CutText(JustProcessed.text, dtype), dtype),
               RuleTemplate(CutText(JustProcessed.text, dtype), dtype))
    /\ (pc = "d_loop" /\ dpos >= 1 /\ dtype = FcaCiaAberta
        /\ JustProcessed.text = TextGeral)
       => Maps(dataset, <<"g", "e", "r", "a", "l">>,
               <<"f", "c", "a", "_", "c", "i", "a", "_", "a", "b", "e", "r",
                 "t", "a", "_", "g", "e", "r", "a", "l", "_", "{", "y", "e",
                 "a", "r", "}", ".", "c", "s", "v">>)
    /\ (pc = "d_returned" /\ KnownFamily(dtype)) =>
          /\ Maps(dataset, Original,
                  dtype \o <<"_", "{", "y", "e", "a", "r", "}", ".", "c",
                             "s", "v">>)
          /\ \A i \in DOMAIN ditems :
                (/\ QualifyingItem(ditems[i], dtype)
                 /\ HasDelimiter(ditems[i].text, dtype)
                 /\ RuleKey(CutText(ditems[i].text, dtype), dtype) # Original
                 /\ ~\E j \in DOMAIN ditems :
                       /\ j > i
                       /\ QualifyingItem(ditems[j], dtype)
                       /\ ItemKey(Truncated(ditems[j].text, Delimiter(dtype)),
                                  dtype)
                          = RuleKey(CutText(ditems[i].text, dtype), dtype))
                => Maps(dataset,
                        RuleKey(CutText(ditems[i].text, dtype), dtype),
                        RuleTemplate(CutText(ditems[i].text, dtype), dtype))

\* a returned catalog built from one item of each branch of the rule
C9_Witness ==
    /\ pc = "d_returned"
    /\ dtype = FcaCiaAberta
    /\ Len(ditems) = 2
    /\ ditems[1] = [strong |-> TRUE, text |-> TextGeral]
    /\ ditems[2] = [strong |-> TRUE, text |-> TextAuditor]
    /\ Len(dataset) = 3

\* C10: the key and the template come from exactly the characters before
\* the first occurrence of the delimiter, and from the whole text when the
\* delimiter does not occur.
C10_TruncationKeepsText ==
    (pc = "d_loop" /\ dpos >= 1 /\ KnownFamily(dtype)
     /\ QualifyingItem(JustProcessed, dtype))
    => Maps(dataset,
            RuleKey(CutText(JustProcessed.text, dtype), dtype),
            RuleTemplate(CutText(JustProcessed.text, dtype), dtype))

====
